---------------------------- MODULE Spec2Model ----------------------------
(***************************************************************************)
(* Model of src/app.py: the Shopee mass-update price reconciler.           *)
(*                                                                         *)
(* Text is a sequence of symbols.  A symbol is one character (" ", "+",    *)
(* ".", a digit) or an indivisible block of letters ("KODE", "BARANG",     *)
(* "A", "p"); the substring, strip, upper-case and digit-run operations of *)
(* the code are computed on these sequences.                               *)
(* A cell value is a record [t, n, s]: t is the Python type of the value   *)
(* ("none", "bool", "int", "float", "str"), n the number (a float is kept  *)
(* in thousandths), s the text.                                            *)
(* Optional[int] is a set: {} is None, {v} is the integer v.               *)
(***************************************************************************)
EXTENDS Integers, Sequences, FiniteSets, TLC

VARIABLES
    pc,             \* position of the run of process_shopee_files
    pricelist_map,  \* app.py:325
    addon_map,      \* app.py:326-328
    diskon_rp,      \* argument diskon_rp
    nfiles,         \* len(mass_files)
    issues,         \* app.py:330
    out,            \* rows of out_ws from DATA_START_ROW downward
    max_col,        \* app.py:351
    write_row,      \* app.py:353
    total_updated,  \* app.py:354
    fidx,           \* index in mass_files of the file of the for loop
    ws,             \* the sheet of that file: its max_column and max_row
    ridx,           \* the row r of the inner loop
    error,          \* the exception that left process_shopee_files, or "none"
    srcOf,          \* history: for each row of out, the source row it was made from
    log,            \* history: the rows whose emission completed, in order
    due,            \* history: the rows read so far that the selection rule calls changed
    failed,         \* history: the files whose processing threw
    last,           \* history: the row read last, if it was skipped as unchanged
    rows_seen,      \* history: the data rows of the files opened so far
    price_in,       \* arguments of one call of compute_final_price
    price_out       \* its result

vars == << pc, pricelist_map, addon_map, diskon_rp, nfiles, issues, out, max_col,
           write_row, total_updated, fidx, ws, ridx, error, srcOf, log, due,
           failed, last, rows_seen, price_in, price_out >>

-----------------------------------------------------------------------------
(* Bounds of the model *)

\* the mass files of a run, and the data rows of all of them together
MaxFiles == 2
MaxRows == 3

-----------------------------------------------------------------------------
(* Values *)

None == {}
Some(v) == {v}
Val(o) == CHOOSE v \in o : TRUE

NoneCell == [t |-> "none", n |-> 0, s |-> << >>]
BoolCell == [t |-> "bool", n |-> 1, s |-> << >>]
IntCell(n) == [t |-> "int", n |-> n, s |-> << >>]
FloatCell(m) == [t |-> "float", n |-> m, s |-> << >>]
StrCell(s) == [t |-> "str", n |-> 0, s |-> s]

Digits == <<"0", "1", "2", "3", "4", "5", "6", "7", "8", "9">>

IsDigit(c) == \E d \in 1..10 : Digits[d] = c

DigitVal(c) == (CHOOSE d \in 1..10 : Digits[d] = c) - 1

RECURSIVE NatStr(_)
NatStr(n) == IF n < 10 THEN << Digits[n + 1] >>
             ELSE NatStr(n \div 10) \o << Digits[(n % 10) + 1] >>

\* the decimals of a float given in thousandths, as Python prints them
FracStr(r) == IF r = 0 THEN << "0" >>
              ELSE IF r % 100 = 0 THEN << Digits[(r \div 100) + 1] >>
              ELSE IF r % 10 = 0
                   THEN << Digits[(r \div 100) + 1], Digits[((r \div 10) % 10) + 1] >>
              ELSE << Digits[(r \div 100) + 1], Digits[((r \div 10) % 10) + 1],
                      Digits[(r % 10) + 1] >>

\* str(x)
PyStr(x) ==
    CASE x.t = "str" -> x.s
      [] x.t = "int" -> IF x.n < 0 THEN << "-" >> \o NatStr(-x.n) ELSE NatStr(x.n)
      [] x.t = "bool" -> << "True" >>
      [] x.t = "float" ->
            IF x.n < 0
            THEN << "-" >> \o NatStr((-x.n) \div 1000) \o << "." >> \o FracStr((-x.n) % 1000)
            ELSE NatStr(x.n \div 1000) \o << "." >> \o FracStr(x.n % 1000)
      [] OTHER -> << "None" >>

RECURSIVE LStrip(_)
LStrip(s) == IF s # << >> /\ Head(s) = " " THEN LStrip(Tail(s)) ELSE s

RECURSIVE RStrip(_)
RStrip(s) == IF s # << >> /\ s[Len(s)] = " " THEN RStrip(SubSeq(s, 1, Len(s) - 1)) ELSE s

Strip(s) == RStrip(LStrip(s))

UpperSym(c) ==
    CASE c = "a" -> "A"
      [] c = "b" -> "B"
      [] c = "p" -> "P"
      [] c = "q" -> "Q"
      [] c = "x" -> "X"
      [] c = "total" -> "TOTAL"
      [] c = "kode" -> "KODE"
      [] c = "Kode" -> "KODE"
      [] c = "Addon" -> "ADDON"
      [] c = "rp" -> "RP"
      [] c = "barang" -> "BARANG"
      [] c = "m" -> "M"
      [] c = "harga" -> "HARGA"
      [] OTHER -> c

Upper(s) == [i \in 1..Len(s) |-> UpperSym(s[i])]

_norm_str(x) == IF x.t = "none" THEN << >> ELSE Strip(PyStr(x))

_norm_key(x) == Upper(Strip(_norm_str(x)))

\* round(): the nearest integer of m thousandths, a tie going to the even one
PyRound(m) ==
    LET q == m \div 1000
        r == m % 1000
    IN  IF r < 500 THEN q
        ELSE IF r > 500 THEN q + 1
        ELSE IF q % 2 = 0 THEN q ELSE q + 1

RECURSIVE DigitsOnly(_)
DigitsOnly(s) == IF s = << >> THEN << >>
                 ELSE IF IsDigit(Head(s)) THEN << Head(s) >> \o DigitsOnly(Tail(s))
                 ELSE DigitsOnly(Tail(s))

RECURSIVE DecValue(_)
DecValue(s) == IF s = << >> THEN 0
               ELSE 10 * DecValue(SubSeq(s, 1, Len(s) - 1)) + DigitVal(s[Len(s)])

parse_thousands_to_rp(value) ==
    CASE value.t = "none" -> None
      [] value.t = "bool" -> None
      [] value.t = "int" -> Some(value.n * 1000)
      [] value.t = "float" ->
            IF value.n < 1000 * 1000 /\ value.n % 1000 # 0
            THEN Some(value.n * 1000)
            ELSE Some(PyRound(value.n) * 1000)
      [] OTHER ->
            LET s == _norm_str(value)
                digits == DigitsOnly(s)
            IN  IF s = << >> THEN None
                ELSE IF digits = << >> THEN None
                ELSE Some(DecValue(digits) * 1000)

parse_rp(value) ==
    CASE value.t = "none" -> None
      [] value.t = "bool" -> None
      [] value.t = "int" -> Some(value.n)
      [] value.t = "float" -> Some(PyRound(value.n))
      [] OTHER ->
            LET s == _norm_str(value)
                digits == DigitsOnly(s)
            IN  IF s = << >> THEN None
                ELSE IF digits = << >> THEN None
                ELSE Some(DecValue(digits))

-----------------------------------------------------------------------------
(* SKU decomposition and price resolution *)

\* sku_full.split("+")
RECURSIVE SplitPlus(_, _)
SplitPlus(s, cur) ==
    IF s = << >> THEN << cur >>
    ELSE IF Head(s) = "+" THEN << cur >> \o SplitPlus(Tail(s), << >>)
    ELSE SplitPlus(Tail(s), Append(cur, Head(s)))

RECURSIVE NonBlank(_)
NonBlank(ps) == IF ps = << >> THEN << >>
                ELSE IF Strip(Head(ps)) # << >> THEN << Head(ps) >> \o NonBlank(Tail(ps))
                ELSE NonBlank(Tail(ps))

split_sku_addons(sku_full) ==
    LET parts == NonBlank(SplitPlus(sku_full, << >>))
    IN  IF parts = << >> THEN [base |-> << >>, addons |-> << >>]
        ELSE [base |-> Strip(Head(parts)),
              addons |-> [i \in 1..(Len(parts) - 1) |-> Strip(parts[i + 1])]]

RECURSIVE AddonLoopLenient(_, _, _)
AddonLoopLenient(addons, amap, addon_sum) ==
    IF addons = << >> THEN Some(addon_sum)
    ELSE LET akey == _norm_key(StrCell(Head(addons)))
         IN  IF akey = << >> THEN AddonLoopLenient(Tail(addons), amap, addon_sum)
             ELSE IF akey \notin DOMAIN amap
                  THEN AddonLoopLenient(Tail(addons), amap, addon_sum)
             ELSE AddonLoopLenient(Tail(addons), amap, addon_sum + amap[akey])

\* the loop of compute_final_price over the addons: None as soon as one is
\* missing, else the accumulated sum
RECURSIVE AddonLoop(_, _, _)
AddonLoop(addons, amap, addon_sum) ==
    IF addons = << >> THEN Some(addon_sum)
    ELSE LET akey == _norm_key(StrCell(Head(addons)))
         IN  IF akey = << >> THEN AddonLoop(Tail(addons), amap, addon_sum)
             ELSE IF akey \notin DOMAIN amap THEN None
             ELSE AddonLoop(Tail(addons), amap, addon_sum + amap[akey])

FinalPriceNoClamp(base_price, addon_sum, diskon) == base_price + addon_sum - diskon

FinalPrice(base_price, addon_sum, diskon) ==
    LET final_price == base_price + addon_sum - diskon
    IN  IF final_price < 0 THEN 0 ELSE final_price

compute_final_price(sku_full, plmap, amap, diskon) ==
    LET sp == split_sku_addons(sku_full)
        base_key == _norm_key(StrCell(sp.base))
    IN  IF base_key = << >> \/ base_key \notin DOMAIN plmap THEN None
        ELSE LET addon_sum == AddonLoop(sp.addons, amap, 0)
             IN  IF addon_sum = None THEN None
                 ELSE Some(FinalPrice(plmap[base_key], Val(addon_sum), diskon))

-----------------------------------------------------------------------------
(* Worksheets: a sheet is a sequence of rows, a row a sequence of cell values *)

Max2(a, b) == IF a > b THEN a ELSE b
Min2(a, b) == IF a < b THEN a ELSE b

RECURSIVE MaxLen(_)
MaxLen(sheet) == IF sheet = << >> THEN 0 ELSE Max2(Len(Head(sheet)), MaxLen(Tail(sheet)))

\* ws.max_row and ws.max_column (openpyxl reports 1 for an empty sheet)
SheetMaxRow(sheet) == Max2(Len(sheet), 1)
SheetMaxCol(sheet) == Max2(MaxLen(sheet), 1)

\* ws.cell(r, c).value
CellAt(sheet, r, c) ==
    IF r <= Len(sheet) /\ c <= Len(sheet[r]) THEN sheet[r][c] ELSE NoneCell

\* k in text
Contains(text, k) ==
    \E i \in 0..(Len(text) - Len(k)) : SubSeq(text, i + 1, i + Len(k)) = k

RECURSIVE JoinBar(_)
JoinBar(vals) == IF vals = << >> THEN << >>
                 ELSE IF Len(vals) = 1 THEN Head(vals)
                 ELSE Head(vals) \o << " ", "|", " " >> \o JoinBar(Tail(vals))

RowText(sheet, r) ==
    JoinBar([c \in 1..SheetMaxCol(sheet) |-> Upper(_norm_str(CellAt(sheet, r, c)))])

RowHasGroups(sheet, r, must_have_any) ==
    \A g \in 1..Len(must_have_any) :
        \E k \in 1..Len(must_have_any[g]) :
            Contains(RowText(sheet, r), Upper(must_have_any[g][k]))

\* the first row of the scan window that has a keyword of every group; None if none
find_header_row(sheet, must_have_any, scan_rows) ==
    LET stop == Min2(scan_rows, SheetMaxRow(sheet))
        hits == {r \in 1..stop : RowHasGroups(sheet, r, must_have_any)}
    IN  IF hits = {} THEN None
        ELSE Some(CHOOSE r \in hits : \A q \in hits : r <= q)

\* a dict as the sequence of its <<key, value>> items in insertion order
DictHas(d, k) == \E i \in 1..Len(d) : d[i][1] = k
DictGet(d, k) == {d[i][2] : i \in {j \in 1..Len(d) : d[j][1] = k}}
DictPut(d, k, v) ==
    IF DictHas(d, k) THEN [i \in 1..Len(d) |-> IF d[i][1] = k THEN << k, v >> ELSE d[i]]
    ELSE Append(d, << k, v >>)

\* a dict as the function TLA+ looks keys up in
DictFn(d) == [k \in {d[i][1] : i \in 1..Len(d)} |-> Val(DictGet(d, k))]

RECURSIVE MapHeadersFrom(_, _, _, _)
MapHeadersFrom(sheet, header_row, c, headers) ==
    IF c > SheetMaxCol(sheet) THEN headers
    ELSE LET key == _norm_key(CellAt(sheet, header_row, c))
         IN  MapHeadersFrom(sheet, header_row, c + 1,
                            IF key # << >> THEN DictPut(headers, key, c) ELSE headers)

map_headers(sheet, header_row) == MapHeadersFrom(sheet, header_row, 1, << >>)

-----------------------------------------------------------------------------
(* The reference data loaders *)

SCAN_ROWS == 80

K_KODEBARANG == << "KODE", "BARANG" >>
K_KODE_BARANG == << "KODE", " ", "BARANG" >>
K_M4 == << "M", "4" >>
K_TOTAL == << "TOTAL" >>
K_HARGA == << "HARGA" >>
K_PRICE == << "PRICE" >>
K_KODE == << "KODE" >>
K_VARIAN == << "VARIAN" >>
K_VARIASI == << "VARIASI" >>
K_STANDARISASI == << "STANDARISASI" >>
K_ADDON == << "ADDON" >>

PricelistGroups == << << K_KODEBARANG, K_KODE_BARANG >>, << K_M4 >> >>
AddonGroups == << << K_HARGA, K_PRICE >>, << K_KODE, K_VARIAN, K_STANDARISASI, K_ADDON >> >>

AddonCodeCandidates ==
    << << "ADDON", "_", "CODE" >>,
       K_KODE,
       << "KODE", " ", "ADDON" >>,
       << "STANDARISASI", " ", "KODE", " ", "SKU", " ", "DI", " ", "VARIAN" >>,
       << "STANDARISASI", " ", "KODE", " ", "SKU", " ", "DI", " ", "VARIASI" >>,
       << "KODE", " ", "VARIAN" >>,
       << "KODE", " ", "VARIASI" >> >>

AddonFallbackWords == << K_KODE, K_VARIAN, K_VARIASI, K_STANDARISASI, K_ADDON >>

Raised(msg) == [ok |-> FALSE, map |-> << >>, msg |-> msg]
Loaded(d) == [ok |-> TRUE, map |-> d, msg |-> "" ]

\* the row loop of load_pricelist_map
RECURSIVE PricelistRows(_, _, _, _, _)
PricelistRows(sheet, r, sku_col, m4_col, pl_map) ==
    IF r > SheetMaxRow(sheet) THEN pl_map
    ELSE LET sku == CellAt(sheet, r, sku_col)
             sku_key == _norm_key(sku)
             price_rp == parse_thousands_to_rp(CellAt(sheet, r, m4_col))
             skip == \/ sku.t = "none"
                     \/ sku_key = << >>
                     \/ sku_key = K_TOTAL
                     \/ price_rp = None
         IN  PricelistRows(sheet, r + 1, sku_col, m4_col,
                           IF skip THEN pl_map ELSE DictPut(pl_map, sku_key, Val(price_rp)))

load_pricelist_map(sheet) ==
    LET header_row == find_header_row(sheet, PricelistGroups, SCAN_ROWS)
    IN  IF header_row = None THEN Raised("Header Pricelist tidak ketemu")
        ELSE
          LET hdr == map_headers(sheet, Val(header_row))
              sku_col == IF DictHas(hdr, K_KODEBARANG) THEN DictGet(hdr, K_KODEBARANG)
                         ELSE DictGet(hdr, K_KODE_BARANG)
              m4_col == DictGet(hdr, K_M4)
          IN  IF sku_col = None \/ m4_col = None
              THEN Raised("Kolom SKU/Price di Pricelist tidak ketemu")
              ELSE
                LET pl_map == PricelistRows(sheet, Val(header_row) + 1, Val(sku_col),
                                            Val(m4_col), << >>)
                IN  IF pl_map = << >> THEN Raised("mapping KODEBARANG -> M4 kosong")
                    ELSE Loaded(pl_map)

\* the first of the keys, in the order given, that the header dict has
RECURSIVE FirstKeyIn(_, _)
FirstKeyIn(keys, hdr) ==
    IF keys = << >> THEN None
    ELSE IF DictHas(hdr, Head(keys)) THEN DictGet(hdr, Head(keys))
    ELSE FirstKeyIn(Tail(keys), hdr)

\* the fallback of load_addon_map: the first header, in dict order, that
\* contains one of the words
RECURSIVE FallbackCodeCol(_)
FallbackCodeCol(items) ==
    IF items = << >> THEN None
    ELSE IF \E w \in 1..Len(AddonFallbackWords) : Contains(Head(items)[1], AddonFallbackWords[w])
         THEN Some(Head(items)[2])
    ELSE FallbackCodeCol(Tail(items))

RECURSIVE AddonRows(_, _, _, _, _)
AddonRows(sheet, r, code_col, price_col, amap) ==
    IF r > SheetMaxRow(sheet) THEN amap
    ELSE LET code == CellAt(sheet, r, code_col)
             code_key == _norm_key(code)
             price_rp == parse_thousands_to_rp(CellAt(sheet, r, price_col))
             skip == code.t = "none" \/ code_key = << >> \/ price_rp = None
         IN  AddonRows(sheet, r + 1, code_col, price_col,
                       IF skip THEN amap ELSE DictPut(amap, code_key, Val(price_rp)))

load_addon_map(sheet) ==
    LET header_row == find_header_row(sheet, AddonGroups, SCAN_ROWS)
    IN  IF header_row = None THEN Raised("Header Addon Mapping tidak ketemu")
        ELSE
          LET hdr == map_headers(sheet, Val(header_row))
              price_col == FirstKeyIn(<< K_HARGA, K_PRICE >>, hdr)
              exact == FirstKeyIn(AddonCodeCandidates, hdr)
              code_col == IF exact # None THEN exact ELSE FallbackCodeCol(hdr)
          IN  IF code_col = None \/ price_col = None
              THEN Raised("Kolom addon_code / harga tidak ketemu di Addon Mapping")
              ELSE Loaded(AddonRows(sheet, Val(header_row) + 1, Val(code_col),
                                    Val(price_col), << >>))

-----------------------------------------------------------------------------
(* The inputs the runs are drawn from *)

TitleRow == << StrCell(<< "Daftar", " ", "Harga" >>) >>

\* pricelist: a title row, the header in row 2, a TOTAL footer
PL_GOOD ==
    << TitleRow,
       << StrCell(<< "kode", "barang" >>), StrCell(<< "Nama" >>), StrCell(<< "M", "4" >>) >>,
       << StrCell(<< " ", "a" >>), StrCell(<< "x" >>), IntCell(2) >>,
       << StrCell(<< "B" >>), NoneCell, StrCell(<< "5" >>) >>,
       << StrCell(<< "C" >>), NoneCell, NoneCell >>,
       << StrCell(<< "total" >>), NoneCell, IntCell(7) >> >>

\* no row carries both keyword groups
PL_NO_HEADER ==
    << TitleRow,
       << StrCell(<< "KODE", "BARANG" >>), StrCell(<< "HARGA" >>) >>,
       << StrCell(<< "A" >>), IntCell(2) >> >>

\* "HARGA M4" contains M4, but no header is named M4
PL_NO_COLUMN ==
    << << StrCell(<< "KODE", "BARANG" >>), StrCell(<< "HARGA", " ", "M", "4" >>) >>,
       << StrCell(<< "A" >>), IntCell(2) >> >>

\* header found, no usable row
PL_NO_ROWS ==
    << << StrCell(<< "KODE", " ", "BARANG" >>), StrCell(<< "M", "4" >>) >>,
       << StrCell(<< "TOTAL" >>), IntCell(2) >>,
       << StrCell(<< "A" >>), StrCell(<< "-" >>) >>,
       << NoneCell, IntCell(3) >> >>

PricelistPool ==
    { [bytes |-> "xlsx", sheet |-> PL_GOOD],
      [bytes |-> "xlsx", sheet |-> PL_NO_HEADER],
      [bytes |-> "xlsx", sheet |-> PL_NO_COLUMN],
      [bytes |-> "xlsx", sheet |-> PL_NO_ROWS],
      [bytes |-> "corrupt", sheet |-> << >>] }

AD_GOOD ==
    << << StrCell(<< "Kode", " ", "Addon" >>), StrCell(<< "harga" >>) >>,
       << StrCell(<< "p" >>), FloatCell(1000) >>,
       << StrCell(<< "Q" >>), NoneCell >> >>

\* the code column is found by the fallback scan
AD_FALLBACK ==
    << TitleRow,
       << StrCell(<< "No" >>), StrCell(<< "VARIAN", " ", "SKU" >>), StrCell(<< "PRICE" >>) >>,
       << IntCell(1), StrCell(<< "P" >>), IntCell(1) >> >>

AD_NO_HEADER ==
    << << StrCell(<< "Code" >>), StrCell(<< "HARGA" >>) >>,
       << StrCell(<< "P" >>), IntCell(1) >> >>

\* "HARGA JUAL" and "KODE" pass the header scan, but no header is named HARGA or PRICE
AD_NO_COLUMN ==
    << << StrCell(<< "KODE" >>), StrCell(<< "HARGA", " ", "JUAL" >>) >>,
       << StrCell(<< "P" >>), IntCell(1) >> >>

AD_NO_ROWS ==
    << << StrCell(<< "KODE" >>), StrCell(<< "HARGA" >>) >> >>

AddonPool ==
    { [bytes |-> "none", sheet |-> << >>],
      [bytes |-> "xlsx", sheet |-> AD_GOOD],
      [bytes |-> "xlsx", sheet |-> AD_FALLBACK],
      [bytes |-> "xlsx", sheet |-> AD_NO_HEADER],
      [bytes |-> "xlsx", sheet |-> AD_NO_COLUMN],
      [bytes |-> "xlsx", sheet |-> AD_NO_ROWS],
      [bytes |-> "corrupt", sheet |-> << >>] }

DiscountPool == {0, 1000}

\* max_column of a mass-update sheet
ColsPool == {7, 8}

\* the SKU cell and the price cell of a mass-update row
RowKinds ==
    { << StrCell(<< "A" >>), FloatCell(1999600) >>,
      << StrCell(<< "a", " ", "+", "p" >>), StrCell(<< "Rp", " ", "3", ".", "0", "0", "0" >>) >>,
      << StrCell(<< "A" >>), NoneCell >>,
      << StrCell(<< " " >>), IntCell(2000) >> }

-----------------------------------------------------------------------------
(* process_shopee_files *)

DATA_START_ROW == 7
SKU_COL == 6
PRICE_COL == 7

\* the column whose copied value raises on assignment; 0: none raises
ThrowPool == {0, PRICE_COL}

\* row r of a mass-update sheet of ncols columns: an id in column 1, the SKU
\* and the price in their columns, a remark in column 8
SheetRow(kind, ncols, r) ==
    [c \in 1..ncols |->
        IF c = 1 THEN IntCell(r)
        ELSE IF c = SKU_COL THEN kind[1]
        ELSE IF c = PRICE_COL THEN kind[2]
        ELSE IF c = 8 THEN StrCell(<< "x" >>)
        ELSE NoneCell]

CellOf(row, c) == IF c <= Len(row) THEN row[c] ELSE NoneCell

FileName(i) == << "f" >> \o NatStr(i)

FileIssue(fname) ==
    [file |-> fname, row |-> << >>, sku_full |-> << >>, base_sku |-> << >>,
     reason |-> "Gagal proses file"]

EmptyNotice ==
    [file |-> << >>, row |-> << >>, sku_full |-> << >>, base_sku |-> << >>,
     reason |-> "Tidak ada baris yang berubah"]

\* ws.insert_rows(at, 1) on the rows from DATA_START_ROW downward, then the
\* cells of the new row
InsertRow(rows, at, row) ==
    LET k == at - DATA_START_ROW
    IN  SubSeq(rows, 1, k) \o << row >> \o SubSeq(rows, k + 1, Len(rows))

\* the value copy loop, stopped before column `stop` (max_col + 1: not stopped)
CopiedValues(src, cols, stop) ==
    [c \in 1..Max2(cols, PRICE_COL) |->
        IF c <= cols /\ c < stop THEN CellOf(src, c) ELSE NoneCell]

WithPrice(row, new_price) == [row EXCEPT ![PRICE_COL] = IntCell(new_price)]

AlreadyMatchesNever(old_price_rp, new_price) == FALSE

\* app.py:383
AlreadyMatches(old_price_rp, new_price) ==
    old_price_rp # None /\ Val(old_price_rp) = new_price

NextWriteRowStuck(w) == w

NextWriteRow(w) == w + 1

ThrownRowsDiscarded(rows, at, partial) == << >>

\* the rows of the output after the value copy raised: the inserted row stays
ThrownRows(rows, at, partial) == InsertRow(rows, at, partial)

\* between two files the sheet and the row of the loop are dead
NoSheet == [ncols |-> 0, nrows |-> 0]

\* the except clause of the file loop, and the step to the next file
FileThrew ==
    /\ issues' = Append(issues, FileIssue(FileName(fidx)))
    /\ failed' = failed \cup {fidx}
    /\ fidx' = fidx + 1
    /\ ws' = NoSheet
    /\ ridx' = 0
    /\ pc' = "files"

\* an exception leaves process_shopee_files; `at` is the argument it is about
Abort(type, msg, at) ==
    /\ pc' = "aborted"
    /\ error' = [type |-> type, msg |-> msg, at |-> at]

NoError == [type |-> "none", msg |-> "", at |-> ""]

NoRow == [f |-> 0, r |-> 0, cells |-> << >>, complete |-> FALSE]

\* load_workbook and the loader on the bytes of a reference file
LoadFailure == Raised("File is not a zip file")

LoadPricelist(pl) == IF pl.bytes = "xlsx" THEN load_pricelist_map(pl.sheet) ELSE LoadFailure

LoadAddonLenient(ad) ==
    IF ad.bytes = "xlsx" /\ load_addon_map(ad.sheet).ok THEN load_addon_map(ad.sheet)
    ELSE Loaded(<< >>)

\* app.py:326-328
LoadAddon(ad) ==
    IF ad.bytes = "none" THEN Loaded(<< >>)
    ELSE IF ad.bytes = "xlsx" THEN load_addon_map(ad.sheet)
    ELSE LoadFailure

ErrorType(bytes) == IF bytes = "xlsx" THEN "ValueError" ELSE "BadZipFile"

FinalIssuesAlways(iss, updated) == Append(iss, EmptyNotice)

\* app.py:405-414
FinalIssues(iss, updated) == IF updated = 0 THEN Append(iss, EmptyNotice) ELSE iss

EmptyMap == [k \in {} |-> 0]

Init ==
    /\ pc = "start"
    /\ pricelist_map = EmptyMap
    /\ addon_map = EmptyMap
    /\ diskon_rp = 0
    /\ nfiles = 0
    /\ issues = << >>
    /\ out = << >>
    /\ max_col = 0
    /\ write_row = 0
    /\ total_updated = 0
    /\ fidx = 0
    /\ ws = NoSheet
    /\ ridx = 0
    /\ error = NoError
    /\ srcOf = << >>
    /\ log = << >>
    /\ due = << >>
    /\ failed = {}
    /\ last = NoRow
    /\ rows_seen = 0
    /\ price_in = << >>
    /\ price_out = None

\* app.py:325-328 for a call with n mass files
LoadReferenceData(pl, ad, d, n) ==
    /\ pc = "start"
    /\ diskon_rp' = d
    /\ nfiles' = n
    /\ LET plr == LoadPricelist(pl)
           adr == LoadAddon(ad)
       IN  IF ~plr.ok
           THEN /\ Abort(ErrorType(pl.bytes), plr.msg, "pl_bytes")
                /\ UNCHANGED << pricelist_map, addon_map >>
           ELSE IF ~adr.ok
           THEN /\ Abort(ErrorType(ad.bytes), adr.msg, "addon_bytes")
                /\ pricelist_map' = DictFn(plr.map)
                /\ UNCHANGED addon_map
           ELSE /\ pricelist_map' = DictFn(plr.map)
                /\ addon_map' = DictFn(adr.map)
                /\ pc' = "init_output"
                /\ UNCHANGED error
    /\ UNCHANGED << issues, out, max_col, write_row, total_updated, fidx, ws, ridx,
                    srcOf, log, due, failed, last, rows_seen, price_in, price_out >>

\* app.py:330-354: the first file becomes the template
InitOutput(readable, ncols) ==
    /\ pc = "init_output"
    /\ IF nfiles = 0
       THEN /\ Abort("IndexError", "list index out of range", "mass_files")
            /\ UNCHANGED << out, max_col, write_row, total_updated, fidx >>
       ELSE IF ~readable
       THEN /\ Abort("BadZipFile", "File is not a zip file", "mass_files[0]")
            /\ UNCHANGED << out, max_col, write_row, total_updated, fidx >>
       ELSE /\ out' = << >>
            /\ max_col' = ncols
            /\ write_row' = DATA_START_ROW
            /\ total_updated' = 0
            /\ fidx' = 1
            /\ pc' = "files"
            /\ UNCHANGED error
    /\ issues' = << >>
    /\ UNCHANGED << pricelist_map, addon_map, diskon_rp, nfiles, ws, ridx, srcOf, log,
                    due, failed, last, rows_seen, price_in, price_out >>

\* app.py:356-359: load_workbook of the file of the loop; the first file is
\* the bytes InitOutput has loaded
OpenFile(readable, ncols, nrows) ==
    /\ pc = "files"
    /\ fidx <= nfiles
    /\ fidx = 1 => (readable /\ ncols = max_col)
    /\ rows_seen + nrows <= MaxRows
    /\ rows_seen' = IF readable THEN rows_seen + nrows ELSE rows_seen
    /\ IF ~readable
       THEN FileThrew
       ELSE IF nrows = 0
       THEN /\ fidx' = fidx + 1
            /\ UNCHANGED << pc, issues, failed, ws, ridx >>
       ELSE /\ ws' = [ncols |-> ncols, nrows |-> nrows]
            /\ ridx' = DATA_START_ROW
            /\ pc' = "rows"
            /\ UNCHANGED << issues, failed, fidx >>
    /\ UNCHANGED << pricelist_map, addon_map, diskon_rp, nfiles, out, max_col, write_row,
                    total_updated, error, srcOf, log, due, last, price_in, price_out >>

\* the rule of the data model for a row that becomes an output row
Changed(row, plmap, amap, d) ==
    LET np == compute_final_price(_norm_str(CellOf(row, SKU_COL)), plmap, amap, d)
    IN  /\ _norm_str(CellOf(row, SKU_COL)) # << >>
        /\ np # None
        /\ parse_rp(CellOf(row, PRICE_COL)) # Some(Val(np))

\* the step of the row loop to the next row, or past the last row to the next file
RowDone ==
    IF ridx < DATA_START_ROW + ws.nrows - 1
    THEN /\ ridx' = ridx + 1
         /\ UNCHANGED << pc, fidx, ws >>
    ELSE /\ pc' = "files"
         /\ fidx' = fidx + 1
         /\ ws' = NoSheet
         /\ ridx' = 0

\* app.py:362-398: one row of the file.  throwAt is the column at which the
\* assignment of a copied value raises (0: none does).
ProcessRow(kind, throwAt) ==
    /\ pc = "rows"
    /\ LET row == SheetRow(kind, ws.ncols, ridx)
           sku_full_s == _norm_str(CellOf(row, SKU_COL))
           old_price_rp == parse_rp(CellOf(row, PRICE_COL))
           new_price == compute_final_price(sku_full_s, pricelist_map, addon_map, diskon_rp)
           src == [f |-> fidx, r |-> ridx, cells |-> row, complete |-> TRUE]
       IN  /\ last' = IF /\ sku_full_s # << >>
                         /\ new_price # None
                         /\ AlreadyMatches(old_price_rp, Val(new_price))
                      THEN src ELSE NoRow
           /\ due' = IF Changed(row, pricelist_map, addon_map, diskon_rp)
                     THEN Append(due, << fidx, ridx >>) ELSE due
           /\ IF \/ sku_full_s = << >>
                 \/ new_price = None
                 \/ AlreadyMatches(old_price_rp, Val(new_price))
              THEN /\ throwAt = 0
                   /\ RowDone
                   /\ UNCHANGED << out, write_row, total_updated, issues, failed, srcOf, log >>
              ELSE IF throwAt # 0
              THEN /\ throwAt <= max_col
                   /\ out' = ThrownRows(out, write_row, CopiedValues(row, max_col, throwAt))
                   /\ srcOf' = ThrownRows(srcOf, write_row, [src EXCEPT !.complete = FALSE])
                   /\ FileThrew
                   /\ UNCHANGED << write_row, total_updated, log >>
              ELSE /\ out' = InsertRow(out, write_row,
                                       WithPrice(CopiedValues(row, max_col, max_col + 1),
                                                 Val(new_price)))
                   /\ srcOf' = InsertRow(srcOf, write_row, src)
                   /\ total_updated' = total_updated + 1
                   /\ write_row' = NextWriteRow(write_row)
                   /\ log' = Append(log, << fidx, ridx >>)
                   /\ RowDone
                   /\ UNCHANGED << issues, failed >>
    /\ UNCHANGED << pricelist_map, addon_map, diskon_rp, nfiles, max_col, error,
                    rows_seen, price_in, price_out >>

\* app.py:405-422
Finalize ==
    /\ pc = "files"
    /\ fidx > nfiles
    /\ issues' = FinalIssues(issues, total_updated)
    /\ pc' = "done"
    /\ UNCHANGED << pricelist_map, addon_map, diskon_rp, nfiles, out, max_col, write_row,
                    total_updated, fidx, ws, ridx, error, srcOf, log, due, failed,
                    last, rows_seen, price_in, price_out >>

Next ==
    \/ \E pl \in PricelistPool, ad \in AddonPool, d \in DiscountPool, n \in 0..MaxFiles :
          LoadReferenceData(pl, ad, d, n)
    \/ \E readable \in BOOLEAN, ncols \in ColsPool : InitOutput(readable, ncols)
    \/ \E readable \in BOOLEAN, ncols \in ColsPool, nrows \in 0..MaxRows :
          OpenFile(readable, ncols, nrows)
    \/ \E kind \in RowKinds, throwAt \in ThrowPool : ProcessRow(kind, throwAt)
    \/ Finalize

Spec == Init /\ [][Next]_vars

-----------------------------------------------------------------------------
(* compute_final_price on its own: one call on arguments drawn from pools *)

SkuPool ==
    { << >>,
      << "A" >>,
      << " ", "a", " " >>,
      << "A", "+" >>,
      << "A", "+", "P" >>,
      << "a", " ", "+", " ", "p" >>,
      << "A", "+", "X" >>,
      << "A", "+", "P", "+", "X" >>,
      << "A", "+", "X", "+", "P" >>,
      << "A", "+", "P", "+", "Q" >>,
      << "A", "+", "P", "+", "P" >>,
      << "A", "+", "+", "P" >>,
      << "A", "+", " ", "+", "Q" >>,
      << "+", "P" >>,
      << "Z", "+", "P" >>,
      << "B", "+", "q", "+", "p", "+", "q" >> }

PlMapPool ==
    { (<< "A" >> :> 2000) @@ (<< "B" >> :> 5000),
      (<< "A" >> :> 300),
      (<< "P" >> :> 7000) @@ (<< "B" >> :> 0) }

AddonMapPool ==
    { EmptyMap,
      (<< "P" >> :> 1000),
      (<< "Q" >> :> 500),
      (<< "P" >> :> 1000) @@ (<< "Q" >> :> 500),
      (<< "X" >> :> 0) @@ (<< "A" >> :> 250) }

PriceDiscountPool == {0, 1000, 9000}

InitPrice ==
    /\ pc = "price"
    /\ price_in \in [sku : SkuPool, plmap : PlMapPool, amap : AddonMapPool,
                     diskon : PriceDiscountPool]
    /\ price_out = None
    /\ pricelist_map = EmptyMap
    /\ addon_map = EmptyMap
    /\ diskon_rp = 0
    /\ nfiles = 0
    /\ issues = << >>
    /\ out = << >>
    /\ max_col = 0
    /\ write_row = 0
    /\ total_updated = 0
    /\ fidx = 0
    /\ ws = NoSheet
    /\ ridx = 0
    /\ error = NoError
    /\ srcOf = << >>
    /\ log = << >>
    /\ due = << >>
    /\ failed = {}
    /\ last = NoRow
    /\ rows_seen = 0

ResolvePrice ==
    /\ pc = "price"
    /\ price_out' = compute_final_price(price_in.sku, price_in.plmap, price_in.amap,
                                        price_in.diskon)
    /\ pc' = "priced"
    /\ UNCHANGED << pricelist_map, addon_map, diskon_rp, nfiles, issues, out, max_col,
                    write_row, total_updated, fidx, ws, ridx, error, srcOf, log, due,
                    failed, last, rows_seen, price_in >>

NextPrice == ResolvePrice

SpecPrice == InitPrice /\ [][NextPrice]_vars

-----------------------------------------------------------------------------
(* Properties of compute_final_price *)

BaseKeyOf(sku) == _norm_key(StrCell(split_sku_addons(sku).base))

AddonKeysOf(sku) ==
    LET addons == split_sku_addons(sku).addons
    IN  [i \in 1..Len(addons) |-> _norm_key(StrCell(addons[i]))]

MissingAddonAt(sku, amap, i) ==
    AddonKeysOf(sku)[i] # << >> /\ AddonKeysOf(sku)[i] \notin DOMAIN amap

HasMissingAddon(sku, amap) ==
    \E i \in 1..Len(AddonKeysOf(sku)) : MissingAddonAt(sku, amap, i)

RECURSIVE AddonTotal(_, _)
AddonTotal(keys, amap) ==
    IF keys = << >> THEN 0
    ELSE (IF Head(keys) = << >> THEN 0 ELSE amap[Head(keys)]) + AddonTotal(Tail(keys), amap)

\* C3: a SKU with at least one non-empty addon code that the addon map lacks
\* resolves to None, wherever that addon stands and whether or not the base
\* and the other addons resolve.
C3_StrictAddons ==
    (pc = "priced" /\ HasMissingAddon(price_in.sku, price_in.amap)) => price_out = None

\* the base and the first addon resolve, a later addon is missing
C3_Witness ==
    /\ pc = "priced"
    /\ BaseKeyOf(price_in.sku) \in DOMAIN price_in.plmap
    /\ Len(AddonKeysOf(price_in.sku)) >= 2
    /\ ~MissingAddonAt(price_in.sku, price_in.amap, 1)
    /\ MissingAddonAt(price_in.sku, price_in.amap, Len(AddonKeysOf(price_in.sku)))
    /\ price_out = None

\* C4: when the base and every addon resolve, the result is
\* max(0, base + sum of the addon prices, each occurrence counted, - discount).
C4_Amount ==
    (/\ pc = "priced"
     /\ BaseKeyOf(price_in.sku) \in DOMAIN price_in.plmap
     /\ ~HasMissingAddon(price_in.sku, price_in.amap))
    => LET raw == price_in.plmap[BaseKeyOf(price_in.sku)]
                  + AddonTotal(AddonKeysOf(price_in.sku), price_in.amap)
                  - price_in.diskon
       IN  /\ price_out = Some(Max2(0, raw))
           /\ Val(price_out) >= 0

\* two addons, the discount exceeds base + addons, the result is 0
C4_Witness ==
    /\ pc = "priced"
    /\ BaseKeyOf(price_in.sku) \in DOMAIN price_in.plmap
    /\ ~HasMissingAddon(price_in.sku, price_in.amap)
    /\ Len(AddonKeysOf(price_in.sku)) >= 2
    /\ AddonTotal(AddonKeysOf(price_in.sku), price_in.amap) > 0
    /\ price_in.plmap[BaseKeyOf(price_in.sku)]
         + AddonTotal(AddonKeysOf(price_in.sku), price_in.amap) < price_in.diskon
    /\ price_out = Some(0)

-----------------------------------------------------------------------------
(* Properties of process_shopee_files *)

Tag(i) == << srcOf[i].f, srcOf[i].r >>

CompleteRows == {i \in 1..Len(srcOf) : srcOf[i].complete}

IssuesFor(name) == {i \in 1..Len(issues) : issues[i].file = name}

Notices == {i \in 1..Len(issues) : issues[i] = EmptyNotice}

InLoop == pc \in {"files", "rows"}

OldPriceOf(cells) == parse_rp(CellOf(cells, PRICE_COL))

NewPriceOf(cells) ==
    compute_final_price(_norm_str(CellOf(cells, SKU_COL)), pricelist_map, addon_map,
                        diskon_rp)

\* C1: whichever file of the list throws, the first included, the run ends
\* normally, the issues hold exactly one record with that file's name, and every
\* changed row of the other files is in the output.
C1_FailureIsolation ==
    /\ ~(pc = "aborted" /\ error.at = "mass_files[0]")
    /\ pc = "done" =>
          /\ \A f \in failed : Cardinality(IssuesFor(FileName(f))) = 1
          /\ \A k \in 1..Len(due) :
                due[k][1] \notin failed => \E i \in CompleteRows : Tag(i) = due[k]

\* C2: no row of the output comes from a source row whose existing price
\* parses to the integer computed for it.
C2_NoUnchangedRow ==
    \A i \in 1..Len(srcOf) :
        ~(/\ OldPriceOf(srcOf[i].cells) # None
          /\ NewPriceOf(srcOf[i].cells) # None
          /\ OldPriceOf(srcOf[i].cells) = NewPriceOf(srcOf[i].cells))

\* the row read last was skipped: its price, a text, parses to the computed
\* price; it is not in the output
C2_Witness ==
    /\ last.f # 0
    /\ CellOf(last.cells, PRICE_COL).t = "str"
    /\ NewPriceOf(last.cells) # None
    /\ OldPriceOf(last.cells) = NewPriceOf(last.cells)
    /\ \A i \in 1..Len(srcOf) : Tag(i) # << last.f, last.r >>
    /\ Len(srcOf) >= 1

\* C5: a call with no mass file, or with a pricelist that does not parse into
\* a non-empty map, fails with the configuration error (ValueError) and yields
\* no workbook and no issues.
C5_ConfigurationError ==
    /\ (nfiles = 0 /\ pc \notin {"start", "init_output"}) =>
          /\ pc = "aborted"
          /\ error.at = "mass_files" => error.type = "ValueError"
          /\ out = << >> /\ issues = << >>
    /\ (error.at = "pl_bytes" /\ error.msg # LoadFailure.msg) =>
          /\ pc = "aborted"
          /\ error.type = "ValueError"
          /\ out = << >> /\ issues = << >> /\ max_col = 0

AddonLoadFails(ad) ==
    \/ ad.bytes = "corrupt"
    \/ ad.bytes = "xlsx" /\ ~load_addon_map(ad.sheet).ok

C7_EmptyNotice ==
    pc = "done" =>
        /\ Cardinality(Notices) = IF CompleteRows = {} THEN 1 ELSE 0
        /\ \A i \in Notices : i = Len(issues)
        /\ \A i \in 1..Len(issues) : i \notin Notices => issues[i].file # << >>
        /\ error = NoError

\* no row written, a file record before the notice
C7_Witness ==
    /\ pc = "done"
    /\ CompleteRows = {}
    /\ Len(issues) >= 2
    /\ issues[Len(issues)] = EmptyNotice
    /\ issues[1].file = FileName(2)

\* C8: every output row equals its source row in every column of the source
\* row but the price column, which holds the computed amount.
C8_FullCopy ==
    \A i \in CompleteRows :
        /\ \A c \in 1..Len(srcOf[i].cells) :
              c # PRICE_COL => CellOf(out[i], c) = srcOf[i].cells[c]
        /\ Some(out[i][PRICE_COL].n) = NewPriceOf(srcOf[i].cells)

\* C9: in the file loop the write cursor is 7 + the number of rows emitted;
\* while no file has failed the output from row 7 on is exactly the changed
\* rows read so far, in file order and row order.
C9_CursorAndRows ==
    /\ InLoop => write_row = DATA_START_ROW + Cardinality(CompleteRows)
    /\ (pc \in {"files", "rows", "done"} /\ failed = {}) =>
          /\ Len(out) = Len(due)
          /\ \A i \in 1..Len(due) : srcOf[i].complete /\ Tag(i) = due[i]

\* two files without failure, a changed row of each in the output, a row skipped
C9_Witness ==
    /\ pc = "done"
    /\ failed = {}
    /\ Len(out) >= 2
    /\ Tag(1)[1] = 1
    /\ Tag(Len(out)) = << 2, DATA_START_ROW + 1 >>
    /\ Len(out) < 4

\* C10: a throw of a file rolls nothing back: the rows emitted before it stay
\* at the top of the output in emission order, the cursor and the count stand,
\* the file has its one record, later rows follow directly, and the rows
\* count against the empty-result notice.
C10_NoRollback ==
    /\ Len(log) <= Len(srcOf)
    /\ \A i \in 1..Len(log) : srcOf[i].complete /\ Tag(i) = log[i]
    /\ pc \in {"files", "rows", "done"} =>
          /\ write_row = DATA_START_ROW + Len(log)
          /\ total_updated = Len(log)
    /\ \A f \in failed : Cardinality(IssuesFor(FileName(f))) = 1
    /\ (pc = "done" /\ log # << >>) => Notices = {}

\* the first file threw after emitting a row, the second file's row follows it
C10_Witness ==
    /\ pc = "done"
    /\ 1 \in failed
    /\ Len(log) >= 2
    /\ log[1][1] = 1
    /\ log[2][1] = 2
    /\ Len(srcOf) > Len(log)
    /\ Notices = {}

=============================================================================
